---- MODULE Spec2Model ----
(***************************************************************************)
(* The insertion span (YSpan) and its activation status (Status) of the    *)
(* text tracker: crates/loro-core/src/container/text/tracker/y_span.rs.    *)
(*                                                                         *)
(* Two specifications are given.                                           *)
(*   Spec     the life of one span held by the tracker: status changes,    *)
(*            slices, merges and the can_be_origin query.                  *)
(*   SpecAlg  the span algebra as pure functions: one call of slice,       *)
(*            overlap, is_mergable/merge on inputs drawn from bounded sets.*)
(***************************************************************************)
EXTENDS Integers, Sequences, FiniteSets, TLC

VARIABLES
    build,       \* "debug" or "release": the cargo profile of the binary
    span,        \* the YSpan under operation
    outcome,     \* "ok", or "panic" once a call has aborted the thread
    last,        \* the last call: its name, inputs, and what it returned
    emptySlice,  \* history: some slice call so far had from = to
    deleted      \* history: Delete flipped the span off, no UndoDelete since

vars == <<build, span, outcome, last, emptySlice, deleted>>

----------------------------------------------------------------------------
(* Bounds of the model *)

\* largest counter of an identifier drawn as an input
MaxCounter == 2
\* largest stored len of a span drawn as an input, and cap on merged len
MaxLen == 3
\* cap on delete_times / undo_times reached by increments
MaxCount == 2
\* width in bits of the model's usize (the target's is 32 or 64)
UsizeBits == 3

Actors == {0, 1}
Builds == {"debug", "release"}

----------------------------------------------------------------------------
(* usize arithmetic of the status counters *)

RECURSIVE Pow2(_)
Pow2(n) == IF n = 0 THEN 1 ELSE 2 * Pow2(n - 1)

UsizeModulus == Pow2(UsizeBits)
UsizeMax == UsizeModulus - 1

\* `x += 1` / `x -= 1` on a usize: the value a build without overflow checks
\* stores
usize_inc(x) == (x + 1) % UsizeModulus
usize_dec(x) == (x + UsizeModulus - 1) % UsizeModulus

\* overflow checks are compiled in exactly when debug assertions are
overflow_checks(b) == b = "debug"
debug_assertions(b) == b = "debug"

----------------------------------------------------------------------------
(* ID and Option<ID> *)

None == <<>>
Some(x) == <<x>>

ID_new(client, counter) == [client_id |-> client, counter |-> counter]

\* ID::inc: the identifier `n` units further on, same actor
ID_inc(id, n) == [client_id |-> id.client_id, counter |-> id.counter + n]

\* CounterSpan::min of the half-open interval [from, to)
CounterSpan_min(c) == IF c.from < c.to THEN c.from ELSE c.to

----------------------------------------------------------------------------
(* Status *)

StatusChange == {"Apply", "PreApply", "Redo", "Undo", "Delete", "UndoDelete"}

Status_new == [unapplied |-> FALSE, delete_times |-> 0, undo_times |-> 0]

Status_is_activated(self) ==
    ~self.unapplied /\ self.delete_times = 0 /\ self.undo_times = 0

\* the arithmetic of `change` leaves the range of usize
Status_apply_overflows(self, change) ==
    \/ change = "Redo" /\ self.undo_times = 0
    \/ change = "Undo" /\ self.undo_times = UsizeMax
    \/ change = "Delete" /\ self.delete_times = UsizeMax
    \/ change = "UndoDelete" /\ self.delete_times = 0

\* C4 mutant: reports the activation after the change, not whether it changed
Status_apply_ReportsActivation(self, change) ==
    LET after ==
            CASE change = "Apply" -> [self EXCEPT !.unapplied = FALSE]
              [] change = "PreApply" -> [self EXCEPT !.unapplied = TRUE]
              [] change = "Redo" -> [self EXCEPT !.undo_times = usize_dec(@)]
              [] change = "Undo" -> [self EXCEPT !.undo_times = usize_inc(@)]
              [] change = "Delete" -> [self EXCEPT !.delete_times = usize_inc(@)]
              [] change = "UndoDelete" -> [self EXCEPT !.delete_times = usize_dec(@)]
    IN  [status |-> after, ret |-> Status_is_activated(after)]

\* Status::apply: the status after `change` and the returned flag
Status_apply(self, change) ==
    LET activated == Status_is_activated(self)
        after ==
            CASE change = "Apply" -> [self EXCEPT !.unapplied = FALSE]
              [] change = "PreApply" -> [self EXCEPT !.unapplied = TRUE]
              [] change = "Redo" -> [self EXCEPT !.undo_times = usize_dec(@)]
              [] change = "Undo" -> [self EXCEPT !.undo_times = usize_inc(@)]
              [] change = "Delete" -> [self EXCEPT !.delete_times = usize_inc(@)]
              [] change = "UndoDelete" -> [self EXCEPT !.delete_times = usize_dec(@)]
    IN  [status |-> after, ret |-> (Status_is_activated(after) # activated)]

----------------------------------------------------------------------------
(* YSpan *)

YSpan_new(id, len, status, origin_left, origin_right) ==
    [id |-> id, len |-> len, status |-> status,
     origin_left |-> origin_left, origin_right |-> origin_right]

YSpan_last_id(self) == ID_inc(self.id, self.len - 1)

YSpan_content_len(self) == self.len

\* C3 mutant: reports the stored len whatever the status
YSpan_len_IgnoresStatus(self) == self.len

\* HasLength::len
YSpan_len(self) == IF Status_is_activated(self.status) THEN self.len ELSE 0

\* can_be_origin: the debug assertion, then the answer
YSpan_can_be_origin_asserts(self, b) == debug_assertions(b) /\ ~(self.len > 0)
YSpan_can_be_origin(self) == Status_is_activated(self.status)

\* overlap with the IdSpan `id` = [client_id, counter |-> [from, to]]
YSpan_overlap(self, id) ==
    IF self.id.client_id # id.client_id
    THEN FALSE
    ELSE /\ self.id.counter < id.counter.to
         /\ self.id.counter + self.len > CounterSpan_min(id.counter)

\* C8 mutant: does not look at the left origin of `other`
YSpan_is_mergable_NoLeftChain(self, other) ==
    /\ other.id.client_id = self.id.client_id
    /\ self.status = other.status
    /\ self.id.counter + self.len = other.id.counter
    /\ self.origin_right = other.origin_right

YSpan_is_mergable(self, other) ==
    /\ other.id.client_id = self.id.client_id
    /\ self.status = other.status
    /\ self.id.counter + self.len = other.id.counter
    /\ self.origin_right = other.origin_right
    /\ Some(ID_inc(self.id, self.len - 1)) = other.origin_left

\* C1 mutant: appends the length and keeps its own right origin
YSpan_merge_KeepsOriginRight(self, other) ==
    [self EXCEPT !.len = self.len + other.len]

\* C2 mutant: takes the length of `other` instead of adding it
YSpan_merge_OverwritesLen(self, other) ==
    [self EXCEPT !.origin_right = other.origin_right, !.len = other.len]

\* merge: `self` after `other` was appended to it
YSpan_merge(self, other) ==
    [self EXCEPT !.origin_right = other.origin_right,
                 !.len = self.len + other.len]

\* C10 mutant: a slice that does not start at 0 comes out one unit short
YSpan_slice_OneShort(self, from, to) ==
    IF from = 0 /\ to = YSpan_content_len(self)
    THEN [fatal |-> FALSE, span |-> self]
    ELSE IF from = 0
    THEN [fatal |-> FALSE,
          span |-> YSpan_new(self.id, to - from, self.status,
                             self.origin_left, Some(ID_inc(self.id, to)))]
    ELSE IF to < YSpan_content_len(self)
    THEN [fatal |-> FALSE,
          span |-> YSpan_new(ID_inc(self.id, from), to - from - 1, self.status,
                             Some(ID_inc(self.id, from - 1)),
                             Some(ID_inc(self.id, to)))]
    ELSE IF to = YSpan_content_len(self)
    THEN [fatal |-> FALSE,
          span |-> YSpan_new(ID_inc(self.id, from), to - from - 1, self.status,
                             Some(ID_inc(self.id, from - 1)),
                             self.origin_right)]
    ELSE [fatal |-> TRUE]

\* slice(from, to): the new span, or the unreachable!() abort
YSpan_slice(self, from, to) ==
    IF from = 0 /\ to = YSpan_content_len(self)
    THEN [fatal |-> FALSE, span |-> self]
    ELSE IF from = 0
    THEN [fatal |-> FALSE,
          span |-> YSpan_new(self.id, to - from, self.status,
                             self.origin_left, Some(ID_inc(self.id, to)))]
    ELSE IF to < YSpan_content_len(self)
    THEN [fatal |-> FALSE,
          span |-> YSpan_new(ID_inc(self.id, from), to - from, self.status,
                             Some(ID_inc(self.id, from - 1)),
                             Some(ID_inc(self.id, to)))]
    ELSE IF to = YSpan_content_len(self)
    THEN [fatal |-> FALSE,
          span |-> YSpan_new(ID_inc(self.id, from), to - from, self.status,
                             Some(ID_inc(self.id, from - 1)),
                             self.origin_right)]
    ELSE [fatal |-> TRUE]

----------------------------------------------------------------------------
(* Input domains *)

\* spans as a local insertion creates them: actor 0 types `len` units from
\* counter 0 on, after a unit of actor 1 and at the end of the text
LocalSpans ==
    { YSpan_new(ID_new(0, 0), l, Status_new, Some(ID_new(1, 0)), None) :
        l \in 1..MaxLen }

\* the spans the tracker may hold right after `a`: the continuation of `a`
\* by the same actor, and the same run inserted at the left origin of `a`
MergeInputs(a) ==
    { YSpan_new(ID_inc(a.id, a.len), l, a.status, ol, a.origin_right) :
        l \in 1..MaxLen, ol \in {Some(YSpan_last_id(a)), a.origin_left} }

\* the spans the pure functions are called on
SpanSet ==
    { YSpan_new(ID_new(c, n), l, s, ol, or) :
        c \in Actors, n \in 0..MaxCounter, l \in 1..MaxLen,
        s \in {Status_new, [Status_new EXCEPT !.delete_times = 1]},
        ol \in {None, Some(ID_new(1, 0))},
        or \in {None, Some(ID_new(0, 1))} }

\* second operands of is_mergable for `a`: every combination of the fields
\* it compares, each equal to or off what `a` asks for
Neighbours(a) ==
    { YSpan_new(ID_new(c, n), l, s, ol, or) :
        c \in Actors,
        n \in {a.id.counter + a.len - 1, a.id.counter + a.len,
               a.id.counter + a.len + 1},
        l \in 1..MaxLen,
        s \in {a.status, [a.status EXCEPT !.unapplied = ~@]},
        ol \in {None, Some(YSpan_last_id(a)), Some(a.id)},
        or \in {a.origin_right, Some(ID_new(0, 0))} }

\* the identifier ranges overlap is asked about: IdSpan { client_id, counter:
\* CounterSpan { from, to } }, from <= to
IdSpans ==
    { [client_id |-> c, counter |-> [from |-> f, to |-> t]] :
        c \in Actors, f \in 0..(MaxCounter + MaxLen), t \in 0..(MaxCounter + MaxLen) }

\* RleVec::push: the run is appended to the last run when mergeable, else
\* kept as a run of its own
RleVec_push(vec, value) ==
    IF Len(vec) > 0 /\ YSpan_is_mergable(vec[Len(vec)], value)
    THEN [vec EXCEPT ![Len(vec)] = YSpan_merge(@, value)]
    ELSE Append(vec, value)

----------------------------------------------------------------------------
(* Spec: the life of one span *)

\* the record of a call: its inputs (the change, <<from, to>>, the appended
\* len), whether it returned and what; `active` and `underflow` describe the
\* status the call found (was it activated, did the change decrement a zero
\* count)
Call(op, arg, returned, ret, active, underflow) ==
    [op |-> op, arg |-> arg, returned |-> returned, ret |-> ret,
     active |-> active, underflow |-> underflow]

Init ==
    /\ build \in Builds
    /\ span \in LocalSpans
    /\ outcome = "ok"
    /\ last = Call("new", "", TRUE, FALSE, TRUE, FALSE)
    /\ emptySlice = FALSE
    /\ deleted = FALSE

\* span.status.apply(change)
Apply ==
    /\ outcome = "ok"
    /\ \E change \in StatusChange :
        /\ change = "Undo" =>
              \/ span.status.undo_times < MaxCount
              \/ span.status.undo_times = UsizeMax
        /\ change = "Delete" =>
              \/ span.status.delete_times < MaxCount
              \/ span.status.delete_times = UsizeMax
        /\ LET active == Status_is_activated(span.status)
               underflow ==
                   \/ change = "Redo" /\ span.status.undo_times = 0
                   \/ change = "UndoDelete" /\ span.status.delete_times = 0
           IN  IF Status_apply_overflows(span.status, change) /\ overflow_checks(build)
               THEN /\ outcome' = "panic"
                    /\ last' = Call("apply", change, FALSE, FALSE, active, underflow)
                    /\ UNCHANGED <<span, deleted>>
               ELSE LET r == Status_apply(span.status, change)
                    IN  /\ span' = [span EXCEPT !.status = r.status]
                        /\ last' = Call("apply", change, TRUE, r.ret, active, underflow)
                        /\ deleted' =
                              CASE change = "Delete" -> deleted \/ active
                                [] change = "UndoDelete" -> FALSE
                                [] OTHER -> deleted
                        /\ UNCHANGED outcome
    /\ UNCHANGED <<build, emptySlice>>

\* the tracker replaces the span by its sub-range [from, to), 0 <= from <= to <= len
Slice ==
    /\ outcome = "ok"
    /\ \E from \in 0..YSpan_content_len(span), to \in 0..YSpan_content_len(span) :
        /\ from <= to
        /\ LET r == YSpan_slice(span, from, to)
               active == Status_is_activated(span.status)
           IN  IF r.fatal
               THEN /\ outcome' = "panic"
                    /\ last' = Call("slice", <<from, to>>, FALSE, FALSE, active, FALSE)
                    /\ UNCHANGED <<span, emptySlice>>
               ELSE /\ span' = r.span
                    /\ last' = Call("slice", <<from, to>>, TRUE, FALSE, active, FALSE)
                    /\ emptySlice' = (emptySlice \/ from = to)
                    /\ UNCHANGED outcome
    /\ UNCHANGED <<build, deleted>>

\* the tracker appends a neighbour when is_mergable allows it
Merge ==
    /\ outcome = "ok"
    /\ \E other \in MergeInputs(span) :
        /\ other.id.counter + other.len <= MaxLen
        /\ YSpan_is_mergable(span, other)
        /\ span' = YSpan_merge(span, other)
        /\ last' = Call("merge", other.len, TRUE, FALSE,
                        Status_is_activated(span.status), FALSE)
    /\ UNCHANGED <<build, outcome, emptySlice, deleted>>

\* span.can_be_origin()
CanBeOrigin ==
    /\ outcome = "ok"
    /\ LET active == Status_is_activated(span.status)
       IN  IF YSpan_can_be_origin_asserts(span, build)
           THEN /\ outcome' = "panic"
                /\ last' = Call("can_be_origin", "", FALSE, FALSE, active, FALSE)
           ELSE /\ last' = Call("can_be_origin", "", TRUE,
                                YSpan_can_be_origin(span), active, FALSE)
                /\ UNCHANGED outcome
    /\ UNCHANGED <<build, span, emptySlice, deleted>>

Next == Apply \/ Slice \/ Merge \/ CanBeOrigin

Spec == Init /\ [][Next]_vars

----------------------------------------------------------------------------
(* SpecAlg: one call of a span function on drawn inputs *)

InitAlg ==
    /\ build \in Builds
    /\ span \in SpanSet
    /\ outcome = "ok"
    /\ last = [op |-> "new"]
    /\ emptySlice = FALSE
    /\ deleted = FALSE

\* span.slice(from, to) with from <= to, in and beyond the run
SliceCall ==
    /\ last.op = "new"
    /\ \E from \in 0..(YSpan_content_len(span) + 1),
          to \in 0..(YSpan_content_len(span) + 1) :
        /\ from <= to
        /\ LET r == YSpan_slice(span, from, to)
           IN  /\ last' = [op |-> "slice", from |-> from, to |-> to, result |-> r]
               /\ outcome' = IF r.fatal THEN "panic" ELSE "ok"
    /\ UNCHANGED <<build, span, emptySlice, deleted>>

\* the span cut at k, and the left fragment merged with the right one
SplitMerge ==
    /\ last.op = "new"
    /\ \E k \in 0..YSpan_content_len(span) :
        LET A == YSpan_slice(span, 0, k).span
            B == YSpan_slice(span, k, YSpan_content_len(span)).span
        IN  last' = [op |-> "split_merge", k |-> k, left |-> A, right |-> B,
                     mergable |-> YSpan_is_mergable(A, B),
                     merged |-> YSpan_merge(A, B)]
    /\ UNCHANGED <<build, span, outcome, emptySlice, deleted>>

\* span.overlap(range)
OverlapCall ==
    /\ last.op = "new"
    /\ \E range \in IdSpans :
        /\ range.counter.from <= range.counter.to
        /\ last' = [op |-> "overlap", range |-> range,
                    ret |-> YSpan_overlap(span, range)]
    /\ UNCHANGED <<build, span, outcome, emptySlice, deleted>>

\* `other` pushed onto an index that holds the span
Push ==
    /\ last.op = "new"
    /\ \E other \in Neighbours(span) :
        last' = [op |-> "push", other |-> other,
                 mergable |-> YSpan_is_mergable(span, other),
                 runs |-> RleVec_push(<<span>>, other)]
    /\ UNCHANGED <<build, span, outcome, emptySlice, deleted>>

\* three runs span, b, c, each mergeable with the next, merged left first
\* and right first
MergeThree ==
    /\ last.op = "new"
    /\ \E b \in Neighbours(span) :
        /\ YSpan_is_mergable(span, b)
        /\ \E c \in Neighbours(b) :
            /\ YSpan_is_mergable(b, c)
            /\ LET ab == YSpan_merge(span, b)
                   bc == YSpan_merge(b, c)
               IN  last' = [op |-> "merge3", b |-> b, c |-> c,
                            ab_c_valid |-> YSpan_is_mergable(ab, c),
                            ab_c |-> YSpan_merge(ab, c),
                            a_bc_valid |-> YSpan_is_mergable(span, bc),
                            a_bc |-> YSpan_merge(span, bc)]
    /\ UNCHANGED <<build, span, outcome, emptySlice, deleted>>

NextAlg == SliceCall \/ SplitMerge \/ OverlapCall \/ Push \/ MergeThree

SpecAlg == InitAlg /\ [][NextAlg]_vars

----------------------------------------------------------------------------
(* Properties *)

\* the five fields of a span
SameSpan(x, y) ==
    /\ x.id = y.id
    /\ x.len = y.len
    /\ x.origin_left = y.origin_left
    /\ x.origin_right = y.origin_right
    /\ x.status = y.status

\* C1 (SpecAlg): slice/merge round trip. For an active span S and a cut
\* 0 <= k <= S.len, slice(0, k) merged with slice(k, S.len) equals S in id,
\* len, origin_left, origin_right and status.
C1_SliceMergeRoundTrip ==
    (last.op = "split_merge" /\ Status_is_activated(span.status))
        => SameSpan(last.merged, span)

\* C1 witness: an active span cut strictly inside and merged back
C1_Witness ==
    /\ last.op = "split_merge"
    /\ Status_is_activated(span.status)
    /\ 0 < last.k /\ last.k < span.len
    /\ last.left.len = last.k
    /\ last.left.origin_right # span.origin_right
    /\ SameSpan(last.merged, span)

\* C2 (SpecAlg): merge associativity. For spans A, B, C with
\* is_mergable(A, B) and is_mergable(B, C), (A+B) is mergeable with C, A is
\* mergeable with (B+C), and the two orders give the same span.
C2_MergeAssociative ==
    last.op = "merge3"
        => /\ last.ab_c_valid
           /\ last.a_bc_valid
           /\ SameSpan(last.ab_c, last.a_bc)

\* C2 witness: three runs chained and merged into one of the summed length
C2_Witness ==
    /\ last.op = "merge3"
    /\ last.ab_c_valid /\ last.a_bc_valid
    /\ last.ab_c.len = span.len + last.b.len + last.c.len
    /\ last.ab_c.id = span.id
    /\ last.ab_c = last.a_bc

C4_FlipReported ==
    [][ (last'.op = "apply" /\ last'.returned)
          => /\ last'.ret = (Status_is_activated(span.status)
                               # Status_is_activated(span'.status))
             /\ (last'.arg = "Delete" /\ Status_is_activated(span.status))
                    => last'.ret
             /\ (last'.arg = "Delete" /\ deleted) => ~last'.ret ]_vars

\* C4 witness: the second Delete in a row has returned FALSE
C4_Witness ==
    /\ last.op = "apply" /\ last.arg = "Delete"
    /\ last.returned /\ ~last.ret
    /\ deleted
    /\ span.status.delete_times = 2

\* C5 as claimed (SpecAlg): slice(from, to) with from <= to and to > len
\* ends in the fatal outcome, whatever from is.
C5_OutOfRangeSliceFatal ==
    (last.op = "slice" /\ last.to > span.len)
        => (last.result.fatal /\ outcome = "panic")

\* C6 as claimed (Spec): delete_times and undo_times never wrap, and an
\* apply(Redo) at undo_times = 0 or apply(UndoDelete) at delete_times = 0
\* is fatal.
C6_UnderflowFatal ==
    /\ span.status.delete_times <= MaxCount
    /\ span.status.undo_times <= MaxCount
    /\ (last.op = "apply" /\ last.underflow)
           => (outcome = "panic" /\ ~last.returned)

\* the counters of [lo, hi)
Interval(lo, hi) == { n \in lo..(hi - 1) : TRUE }

\* C7 as claimed (SpecAlg): overlap(R) is TRUE iff R has the span's actor
\* and [id.counter, id.counter + len) and [from, to) share a counter.
C7_OverlapIffIntersect ==
    last.op = "overlap"
        => (last.ret <=>
               /\ last.range.client_id = span.id.client_id
               /\ Interval(span.id.counter, span.id.counter + span.len)
                    \cap Interval(last.range.counter.from, last.range.counter.to)
                    # {})

\* the five rules of mergeability, on the fields
FiveRules(A, B) ==
    /\ A.id.client_id = B.id.client_id
    /\ A.status.unapplied = B.status.unapplied
    /\ A.status.delete_times = B.status.delete_times
    /\ A.status.undo_times = B.status.undo_times
    /\ A.id.counter + A.len = B.id.counter
    /\ A.origin_right = B.origin_right
    /\ B.origin_left = Some(YSpan_last_id(A))

\* C8 (SpecAlg): is_mergable(A, B) is TRUE iff the five rules hold; spans
\* that meet them are coalesced into one run of length A.len + B.len, all
\* others are kept as two runs.
C8_MergableIffFiveRules ==
    last.op = "push"
        => /\ last.mergable <=> FiveRules(span, last.other)
           /\ FiveRules(span, last.other)
                 => /\ Len(last.runs) = 1
                    /\ last.runs[1].len = span.len + last.other.len
           /\ ~FiveRules(span, last.other) => last.runs = <<span, last.other>>

\* C8 witness: counter-contiguous runs of one actor, same status and right
\* origin, left origin not chained: kept as two runs
C8_Witness ==
    /\ last.op = "push"
    /\ last.other.id.client_id = span.id.client_id
    /\ last.other.id.counter = span.id.counter + span.len
    /\ last.other.status = span.status
    /\ last.other.origin_right = span.origin_right
    /\ last.other.origin_left # Some(YSpan_last_id(span))
    /\ ~last.mergable
    /\ Len(last.runs) = 2

\* C9 as claimed (SpecAlg): the fragments L = slice(0, k), R = slice(k, len)
\* of a cut 0 < k < len have the same right origin, R's left origin is L's
\* last id, and L.is_mergable(R).
C9_FragmentsMergable ==
    (last.op = "split_merge" /\ 0 < last.k /\ last.k < span.len)
        => /\ last.left.origin_right = last.right.origin_right
           /\ last.right.origin_left = Some(YSpan_last_id(last.left))
           /\ last.mergable

====
